---- MODULE Spec2Model ----
(***************************************************************************)
(* Signature verification of did-jwt (src/src/VerifierAlgorithm.ts).       *)
(*                                                                         *)
(* The module is a library of synchronous pure functions, so a behaviour   *)
(* is one call sequence of a caller: the inputs are drawn in Init, the     *)
(* caller may alter the signature or the signing input once (Tamper),      *)
(* then dispatches on the algorithm name (Dispatch) and calls the verifier *)
(* it got (Verify); or it calls toSignatureObject directly (Decode).       *)
(*                                                                         *)
(* The elliptic-curve and Ed25519 primitives are external libraries and    *)
(* are modelled symbolically (perfect cryptography): the variable origin   *)
(* records which key signed which digest with which nonce parity, a        *)
(* signature's r and s are "r"/"s" as produced, "n-s" for the negated s    *)
(* and "r*"/"s*" for any other value.  Where a primitive's outcome depends *)
(* on values the model does not hold (is an altered r the x-coordinate of  *)
(* a curve point? does a garbled key decode?) the outcome is drawn by the  *)
(* caller of the operator (the parameter oracle): TRUE the primitive       *)
(* returns, FALSE it raises.                                               *)
(***************************************************************************)
EXTENDS Integers, Sequences, FiniteSets, TLC

VARIABLES
  pc,              \* where the caller stands
  alg,             \* the algorithm name given to VerifierAlgorithm
  data,            \* the signing input
  signature,       \* the encoded (base64url) signature
  authenticators,  \* the candidate list, objects with an identity (ref)
  ethPersonal,     \* digest convention flag
  chainId,         \* << >> (undefined) or <<c>>
  recoverable,     \* toSignatureObject's flag, for a direct call
  origin,          \* how the signature was produced (key, digest, parity)
                   \* and the signature as the signer gave it
  tampered,        \* what the caller altered since signing
  impl,            \* what VerifierAlgorithm(alg) gave
  result,          \* what the verifier gave
  sigObj           \* what a direct toSignatureObject call gave

vars == <<pc, alg, data, signature, authenticators, ethPersonal, chainId,
          recoverable, origin, tampered, impl, result, sigObj>>

---------------------------------------------------------------------------
(* Bounds of the model *)

\* longest candidate list
MaxAuth == 2
\* chain ids range over 0..MaxChainId
MaxChainId == 2
\* decoded signature lengths range over 64 - LenSlack .. 65 + LenSlack
LenSlack == 2

(* Constants of the program *)

\* a byte of the Uint8Array rawsig
MaxByte == 255

Undefined == << >>

Max(a, b) == IF a >= b THEN a ELSE b
Min(a, b) == IF a <= b THEN a ELSE b

---------------------------------------------------------------------------
(* Outcomes of a call: a returned value or a thrown Error *)

LengthError == "wrong signature length"
SignatureInvalid == "Signature invalid for JWT"
UnsupportedAlgorithm(name) == "Unsupported algorithm " \o name
\* whatever the primitive library throws by itself
PrimitiveError == "error of the primitive library"

---------------------------------------------------------------------------
(* Codecs *)

\* characters of the unpadded base64url text of n bytes
EncodedLength(n) == (4 * n + 2) \div 3

\* bytes the unpadded base64url text of `chars` characters decodes to
DecodedLength(chars) == (3 * chars) \div 4

base64urlToBytes(sig) ==
  [len |-> DecodedLength(sig.length), r |-> sig.r, s |-> sig.s, v |-> sig.v]

\* rawsig.slice(a, b).length
SliceLen(len, a, b) == Max(0, Min(b, len) - Min(a, len))

\* two hex digits a byte
bytesToHex(n, val) == [chars |-> 2 * n, val |-> val]

---------------------------------------------------------------------------
(* Signature decoder *)

\* JavaScript truthiness of chainId?: number
Truthy(c) == c # Undefined /\ c[1] # 0

\* mutant: the chain id is ignored
calculateSigRecovery_IgnoresChainId(v, c) ==
  IF v < 27 THEN v ELSE v - 27

calculateSigRecovery(v, c) ==
  IF v < 27 THEN v
  ELSE IF Truthy(c) THEN v - (2 * c[1] + 35)
  ELSE v - 27

\* mutant: only a signature that is too short is refused
toSignatureObject_AtLeast(sig, recov, c) ==
  LET rawsig == base64urlToBytes(sig) IN
  IF rawsig.len < (IF recov THEN 65 ELSE 64)
  THEN [kind |-> "throw", msg |-> LengthError,
        r |-> bytesToHex(0, "-"), s |-> bytesToHex(0, "-"),
        recoveryParam |-> Undefined]
  ELSE [kind |-> "return", msg |-> "",
        r |-> bytesToHex(SliceLen(rawsig.len, 0, 32), rawsig.r),
        s |-> bytesToHex(SliceLen(rawsig.len, 32, 64), rawsig.s),
        recoveryParam |-> IF recov
                          THEN <<calculateSigRecovery(rawsig.v, c)>>
                          ELSE Undefined]

toSignatureObject(sig, recov, c) ==
  LET rawsig == base64urlToBytes(sig) IN
  IF rawsig.len # (IF recov THEN 65 ELSE 64)
  THEN [kind |-> "throw", msg |-> LengthError,
        r |-> bytesToHex(0, "-"), s |-> bytesToHex(0, "-"),
        recoveryParam |-> Undefined]
  ELSE [kind |-> "return", msg |-> "",
        r |-> bytesToHex(SliceLen(rawsig.len, 0, 32), rawsig.r),
        s |-> bytesToHex(SliceLen(rawsig.len, 32, 64), rawsig.s),
        recoveryParam |-> IF recov
                          THEN <<calculateSigRecovery(rawsig.v, c)>>
                          ELSE Undefined]

---------------------------------------------------------------------------
(* Algorithm dispatcher *)

\* the own properties of the object literal
algorithms ==
  [name \in {"ES256K", "ES256K-R", "Ed25519", "EdDSA"} |->
     CASE name = "ES256K"   -> "verifyES256K"
       [] name = "ES256K-R" -> "verifyRecoverableES256K"
       [] name = "Ed25519"  -> "verifyEd25519"
       [] name = "EdDSA"    -> "verifyEd25519"]

\* properties every object literal inherits from Object.prototype
ObjectPrototype ==
  {"constructor", "toString", "valueOf", "hasOwnProperty", "__proto__"}

\* algorithms[name]: own property, else inherited one, else undefined
Lookup(name) ==
  IF name \in DOMAIN algorithms THEN algorithms[name]
  ELSE IF name \in ObjectPrototype THEN "Object.prototype." \o name
  ELSE "undefined"

VerifierAlgorithm(name) ==
  LET found == Lookup(name) IN
  IF found = "undefined"
  THEN [kind |-> "throw", msg |-> UnsupportedAlgorithm(name), fn |-> "undefined"]
  ELSE [kind |-> "return", msg |-> "", fn |-> found]

---------------------------------------------------------------------------
(* Key material.  A secp256k1 point is named by its owner: "K" the signing *)
(* key, "O" another key, "Q" the point that recovery yields from a genuine *)
(* signature under the opposite parity, "X" any point unrelated to the     *)
(* candidates.  A hex text is <<prefix, point>>: "04" the uncompressed     *)
(* encoding, "02" the compressed one (02 or 03), anything else malformed.  *)

\* recoveredKey.encode('hex') and recoveredKey.encode('hex', true)
Encode(point, compact) == <<IF compact THEN "02" ELSE "04", point>>

\* the address derived from an uncompressed public key
toEthereumAddress(hex) == <<"0x", hex[2]>>

\* the digest of the signing input under either convention
sha256OrPersonal(d, personal) ==
  IF ~personal THEN <<"sha256", d>> ELSE <<"hashPersonalMessage", d>>

\* secp256k1.keyFromPublic(publicKeyHex, 'hex') raises unless the text is a
\* point encoding
Decodes(hex) == hex[1] \in {"04", "02"}

\* key.verify(hash, sigObj): ECDSA accepts (r, s) and (r, n - s) alike
EcVerify(hex, hash, so) ==
  /\ so.r.val = "r"
  /\ so.s.val \in {"s", "n-s"}
  /\ hex[2] = origin.key
  /\ hash = origin.hash

\* secp256k1.recoverPubKey(hash, sigObj, sigObj.recoveryParam)
recoverPubKey(hash, so, oracle) ==
  LET j == so.recoveryParam[1]
      raise == [raised |-> TRUE, point |-> "-"]
      found(p) == [raised |-> FALSE, point |-> p]
  IN  IF j \notin 0..3 THEN raise
      ELSE IF j \in {2, 3} \/ so.r.val # "r"
           THEN (IF oracle THEN found("X") ELSE raise)
      ELSE IF hash # origin.hash \/ so.s.val = "s*" THEN found("X")
      ELSE IF (IF so.s.val = "n-s" THEN 1 - j ELSE j) = origin.parity
           THEN found(origin.key)
      ELSE found("Q")

\* @stablelib/ed25519 verify(publicKey, clear, sig)
EdVerify(key, clear, sig) ==
  /\ sig.r = "r"
  /\ sig.s = "s"
  /\ key[2] = origin.key
  /\ clear = origin.hash

\* a base64 text that base64ToBytes decodes
DecodesBase64(text) == text # Undefined /\ text[1] = "base64"

---------------------------------------------------------------------------
(* Array helpers *)

\* index of the first element of seq that satisfies Test, 0 when none does
FirstIndex(seq, Test(_)) ==
  LET hits == {i \in 1..Len(seq) : Test(seq[i])} IN
  IF hits = {} THEN 0 ELSE CHOOSE i \in hits : \A k \in hits : i <= k

\* the refs of the elements a find() that stopped at index `at` visited
Visited(seq, at) ==
  [i \in 1..(IF at = 0 THEN Len(seq) ELSE at) |-> seq[i].ref]

\* Array.prototype.filter
Filter(seq, Test(_)) == SelectSeq(seq, Test)

Return(ref, examined, tried, signers) ==
  [kind |-> "return", msg |-> "", ref |-> ref, examined |-> examined,
   tried |-> tried, signers |-> signers]

Throw(msg, examined, tried) ==
  [kind |-> "throw", msg |-> msg, ref |-> 0, examined |-> examined,
   tried |-> tried, signers |-> << >>]

---------------------------------------------------------------------------
(* ECDSA recoverer *)

\* index of the last element of seq that satisfies Test, 0 when none does
LastIndex(seq, Test(_)) ==
  LET hits == {i \in 1..Len(seq) : Test(seq[i])} IN
  IF hits = {} THEN 0 ELSE CHOOSE i \in hits : \A k \in hits : i >= k

\* mutant: the last matching candidate is taken, not the first
checkSignatureAgainstSigner_LastMatch(d, auths, personal, so, oracle) ==
  LET hash == sha256OrPersonal(d, personal)
      recoveredKey == recoverPubKey(hash, so, oracle)
      recoveredPublicKeyHex == Encode(recoveredKey.point, FALSE)
      recoveredCompressedPublicKeyHex == Encode(recoveredKey.point, TRUE)
      recoveredAddress == toEthereumAddress(recoveredPublicKeyHex)
      Matches(a) == \/ a.publicKeyHex = recoveredPublicKeyHex
                    \/ a.publicKeyHex = recoveredCompressedPublicKeyHex
                    \/ a.ethereumAddress = recoveredAddress
      at == LastIndex(auths, Matches)
  IN  IF recoveredKey.raised
      THEN [raised |-> TRUE, ref |-> 0, examined |-> << >>]
      ELSE [raised |-> FALSE,
            ref |-> IF at = 0 THEN 0 ELSE auths[at].ref,
            examined |-> Visited(auths, 0)]

checkSignatureAgainstSigner(d, auths, personal, so, oracle) ==
  LET hash == sha256OrPersonal(d, personal)
      recoveredKey == recoverPubKey(hash, so, oracle)
      recoveredPublicKeyHex == Encode(recoveredKey.point, FALSE)
      recoveredCompressedPublicKeyHex == Encode(recoveredKey.point, TRUE)
      recoveredAddress == toEthereumAddress(recoveredPublicKeyHex)
      Matches(a) == \/ a.publicKeyHex = recoveredPublicKeyHex
                    \/ a.publicKeyHex = recoveredCompressedPublicKeyHex
                    \/ a.ethereumAddress = recoveredAddress
      at == FirstIndex(auths, Matches)
  IN  IF recoveredKey.raised
      THEN [raised |-> TRUE, ref |-> 0, examined |-> << >>]
      ELSE [raised |-> FALSE,
            ref |-> IF at = 0 THEN 0 ELSE auths[at].ref,
            examined |-> Visited(auths, at)]

\* mutant: only recoveryParam 0 is tried for a signature without recovery byte
SignatureObjects_OnlyParity0(sig, c) ==
  IF sig.length > 86
  THEN <<toSignatureObject(sig, TRUE, c)>>
  ELSE <<[toSignatureObject(sig, FALSE, c) EXCEPT !.recoveryParam = <<0>>]>>

\* mutant: the recovery byte is dropped and both parities are tried
SignatureObjects_AlwaysAmbiguous(sig, c) ==
  LET so == toSignatureObject(sig, sig.length > 86, c) IN
  <<[so EXCEPT !.recoveryParam = <<0>>], [so EXCEPT !.recoveryParam = <<1>>]>>

\* the signature objects to try: the one with the recovery byte of a long
\* signature, else the two parities of a signature without one
SignatureObjects(sig, c) ==
  IF sig.length > 86
  THEN <<toSignatureObject(sig, TRUE, c)>>
  ELSE LET so == toSignatureObject(sig, FALSE, c) IN
       <<[so EXCEPT !.recoveryParam = <<0>>],
         [so EXCEPT !.recoveryParam = <<1>>]>>

verifyRecoverableES256K(d, sig, auths, personal, c, oracle) ==
  LET signatures == SignatureObjects(sig, c)
      so == signatures[1]
      checked == [k \in 1..Len(signatures) |->
                    checkSignatureAgainstSigner(d, auths, personal,
                                                signatures[k], oracle)]
      \* map() stops at the first callback that raises
      raisedAt == FirstIndex(checked, LAMBDA x : x.raised)
      made == IF raisedAt = 0 THEN Len(signatures) ELSE raisedAt
      tried == [k \in 1..made |-> signatures[k].recoveryParam[1]]
      examined == IF made = 1 THEN checked[1].examined
                  ELSE checked[1].examined \o checked[2].examined
      signer == Filter([k \in 1..Len(signatures) |-> checked[k].ref],
                       LAMBDA ref : ref # 0)
  IN  IF so.kind = "throw" THEN Throw(so.msg, << >>, << >>)
      ELSE IF raisedAt # 0 THEN Throw(PrimitiveError, examined, tried)
      ELSE IF Len(signer) = 0 THEN Throw(SignatureInvalid, examined, tried)
      ELSE Return(signer[1], examined, tried, signer)

---------------------------------------------------------------------------
(* ECDSA verifier *)

\* mutant: no fallback into the recoverer for address candidates
verifyES256K_NoFallback(d, sig, auths, personal, oracle) ==
  LET hash == sha256OrPersonal(d, personal)
      so == toSignatureObject(sig, FALSE, Undefined)
      fullPublicKeys == Filter(auths, LAMBDA a : a.publicKeyHex # Undefined)
      Verifies(a) == Decodes(a.publicKeyHex) /\ EcVerify(a.publicKeyHex, hash, so)
      at == FirstIndex(fullPublicKeys, Verifies)
      seen == Visited(fullPublicKeys, at)
  IN  IF so.kind = "throw" THEN Throw(so.msg, << >>, << >>)
      ELSE IF at # 0 THEN Return(fullPublicKeys[at].ref, seen, << >>, << >>)
      ELSE Throw(SignatureInvalid, seen, << >>)

verifyES256K(d, sig, auths, personal, oracle) ==
  LET hash == sha256OrPersonal(d, personal)
      so == toSignatureObject(sig, FALSE, Undefined)
      fullPublicKeys == Filter(auths, LAMBDA a : a.publicKeyHex # Undefined)
      ethAddressKeys == Filter(auths, LAMBDA a : a.ethereumAddress # Undefined)
      \* a raising keyFromPublic is caught and counts as false
      Verifies(a) == Decodes(a.publicKeyHex) /\ EcVerify(a.publicKeyHex, hash, so)
      at == FirstIndex(fullPublicKeys, Verifies)
      seen == Visited(fullPublicKeys, at)
      fallback == verifyRecoverableES256K(d, sig, ethAddressKeys, personal,
                                          Undefined, oracle)
  IN  IF so.kind = "throw" THEN Throw(so.msg, << >>, << >>)
      ELSE IF at # 0 THEN Return(fullPublicKeys[at].ref, seen, << >>, << >>)
      ELSE IF Len(ethAddressKeys) > 0
           THEN [fallback EXCEPT !.examined = seen \o @]
      ELSE Throw(SignatureInvalid, seen, << >>)

---------------------------------------------------------------------------
(* EdDSA verifier *)

verifyEd25519(d, sig, auths, oracle) ==
  LET clear == <<"utf8", d>>
      rawsig == base64urlToBytes(sig)
      \* base64ToBytes of a missing or garbled text raises or yields bytes
      \* that are no key, as the oracle has it
      Raises(a) == ~DecodesBase64(a.publicKeyBase64) /\ ~oracle
      Verifies(a) == /\ DecodesBase64(a.publicKeyBase64)
                     /\ EdVerify(a.publicKeyBase64, clear, rawsig)
      at == FirstIndex(auths, LAMBDA a : Raises(a) \/ Verifies(a))
      seen == Visited(auths, at)
  IN  IF at = 0 THEN Throw(SignatureInvalid, seen, << >>)
      ELSE IF Raises(auths[at]) THEN Throw(PrimitiveError, seen, << >>)
      ELSE Return(auths[at].ref, seen, << >>, << >>)

---------------------------------------------------------------------------
(* The signers that produce the inputs *)

\* personalSign: ecsign gives 27 + parity, a chain id rebases it
personalSignV(parity, c) ==
  LET v == 27 + parity IN
  IF Truthy(c) THEN v + (c[1] * 2 + 35) - 27 ELSE v

ChainIds == {Undefined} \cup {<<c>> : c \in 0..MaxChainId}

\* the encoded signature of n bytes with recovery byte v
Signed(n, v) == [length |-> EncodedLength(n), r |-> "r", s |-> "s", v |-> v]

\* SimpleSigner and ethPersonalSigner under createJWT with alg ES256K
\* (r || s) and with alg ES256K-R (r || s || recoveryParam)
SecpSigners(parity) ==
  {[personal |-> FALSE, chain |-> Undefined, sig |-> Signed(64, 0)],
   [personal |-> TRUE, chain |-> Undefined, sig |-> Signed(64, 0)],
   [personal |-> FALSE, chain |-> Undefined, sig |-> Signed(65, parity)]}
  \cup {[personal |-> TRUE, chain |-> c,
         sig |-> Signed(65, personalSignV(parity, c))] : c \in ChainIds}

---------------------------------------------------------------------------
(* Candidate descriptors *)

Descriptor(hex, addr, b64) ==
  [publicKeyHex |-> hex, ethereumAddress |-> addr, publicKeyBase64 |-> b64]

\* ecKey2, compressedKey, ethAddress of the tests: the signing key K
hexK == Descriptor(Encode("K", FALSE), Undefined, Undefined)
chexK == Descriptor(Encode("K", TRUE), Undefined, Undefined)
addrK == Descriptor(Undefined, toEthereumAddress(Encode("K", FALSE)), Undefined)
\* ecKey1: another key
hexO == Descriptor(Encode("O", FALSE), Undefined, Undefined)
\* the address of the point the opposite parity recovers
addrQ == Descriptor(Undefined, toEthereumAddress(Encode("Q", FALSE)), Undefined)
\* malformedKey1: a hex text that is no point encoding
badHex == Descriptor(<<"05", "O">>, Undefined, Undefined)
\* edKey, edKey2 and a garbled base64 text
edE == Descriptor(Undefined, Undefined, <<"base64", "E">>)
edF == Descriptor(Undefined, Undefined, <<"base64", "F">>)
badB64 == Descriptor(Undefined, Undefined, <<"garbled", "E">>)

SecpDescriptors == {hexK, chexK, addrK, hexO, addrQ, badHex, edE}
EdDescriptors == {edE, edF, badB64, hexK}

\* every list of at most MaxAuth descriptors, each entry an object of its own
CandidateLists(S) ==
  {[i \in 1..Len(l) |-> [ref |-> i] @@ l[i]] :
     l \in UNION {[1..n -> S] : n \in 0..MaxAuth}}

---------------------------------------------------------------------------
(* The state a caller starts from *)

NoSignature == [length |-> 0, r |-> "-", s |-> "-", v |-> 0]
NoOrigin ==
  [key |-> "-", hash |-> <<"-", "-">>, parity |-> 0, sig |-> NoSignature]
NoImpl == [kind |-> "none", msg |-> "", fn |-> "undefined"]
NoResult ==
  [kind |-> "none", msg |-> "", ref |-> 0, examined |-> << >>,
   tried |-> << >>, signers |-> << >>]
NoSigObj ==
  [kind |-> "none", msg |-> "", r |-> bytesToHex(0, "-"),
   s |-> bytesToHex(0, "-"), recoveryParam |-> Undefined]

\* names given to VerifierAlgorithm that the table does not hold
OtherNames ==
  ObjectPrototype \cup {"BADALGO", "", "ES256", "es256k", "ES256K-", "RS256"}

SigLengths == (64 - LenSlack)..(65 + LenSlack)

Idle ==
  /\ impl = NoImpl
  /\ result = NoResult
  /\ sigObj = NoSigObj
  /\ tampered = "none"

\* a token signed with secp256k1 key K, to be verified as ES256K or ES256K-R
InitSecp ==
  \E parity \in {0, 1}, name \in {"ES256K", "ES256K-R"} :
    \E signer \in SecpSigners(parity), auths \in CandidateLists(SecpDescriptors) :
      /\ pc = "VerifierAlgorithm"
      /\ alg = name
      /\ data = "d1"
      /\ signature = signer.sig
      /\ authenticators = auths
      /\ ethPersonal = signer.personal
      /\ chainId = signer.chain
      /\ recoverable = FALSE
      /\ origin = [key |-> "K", parity |-> parity, sig |-> signer.sig,
                   hash |-> sha256OrPersonal("d1", signer.personal)]
      /\ Idle

\* a token signed with Ed25519 key E by NaclSigner
InitEd ==
  \E name \in {"Ed25519", "EdDSA"}, auths \in CandidateLists(EdDescriptors) :
    /\ pc = "VerifierAlgorithm"
    /\ alg = name
    /\ data = "d1"
    /\ signature = Signed(64, 0)
    /\ authenticators = auths
    /\ ethPersonal = FALSE
    /\ chainId = Undefined
    /\ recoverable = FALSE
    /\ origin = [key |-> "E", parity |-> 0, sig |-> Signed(64, 0),
                 hash |-> <<"utf8", "d1">>]
    /\ Idle

\* a dispatch on a name the table does not hold
InitOther ==
  \E name \in OtherNames :
    /\ pc = "VerifierAlgorithm"
    /\ alg = name
    /\ data = "d1"
    /\ signature = NoSignature
    /\ authenticators = << >>
    /\ ethPersonal = FALSE
    /\ chainId = Undefined
    /\ recoverable = FALSE
    /\ origin = NoOrigin
    /\ Idle

\* a direct call of toSignatureObject on any text of a plausible length
InitDecode ==
  \E n \in SigLengths, flag \in BOOLEAN, c \in ChainIds :
    \E v \in (IF n >= 65 THEN 0..MaxByte ELSE {0}) :
      /\ pc = "toSignatureObject"
      /\ alg = ""
      /\ data = "d1"
      /\ signature = Signed(n, v)
      /\ authenticators = << >>
      /\ ethPersonal = FALSE
      /\ chainId = c
      /\ recoverable = flag
      /\ origin = NoOrigin
      /\ Idle

Init == InitSecp \/ InitEd \/ InitOther \/ InitDecode

---------------------------------------------------------------------------
(* What the caller does *)

Secp == origin.key = "K"

\* the caller alters the signing input or the decoded signature, once
Tamper ==
  /\ pc = "VerifierAlgorithm"
  /\ origin # NoOrigin
  /\ tampered = "none"
  /\ LET n == DecodedLength(signature.length) IN
     \/ /\ data' = "d2"
        /\ tampered' = "data"
        /\ UNCHANGED signature
     \/ /\ signature' = [signature EXCEPT !.r = "r*"]
        /\ tampered' = "r"
        /\ UNCHANGED data
     \/ /\ signature' = [signature EXCEPT !.s = "s*"]
        /\ tampered' = "s"
        /\ UNCHANGED data
     \/ /\ signature' = [signature EXCEPT !.s = "n-s"]
        /\ tampered' = "n-s"
        /\ UNCHANGED data
     \/ /\ n = 65
        /\ alg = "ES256K-R"
        /\ \E v \in 0..MaxByte :
             /\ v # signature.v
             /\ signature' = [signature EXCEPT !.v = v]
        /\ tampered' = "v"
        /\ UNCHANGED data
     \/ /\ Secp
        /\ \E m \in SigLengths :
             /\ m # n
             /\ signature' = [signature EXCEPT
                                !.length = EncodedLength(m),
                                !.v = IF m >= 65 /\ n >= 65 THEN @ ELSE 0]
        /\ tampered' = "length"
        /\ UNCHANGED data
  /\ UNCHANGED <<pc, alg, authenticators, ethPersonal, chainId, recoverable,
                 origin, impl, result, sigObj>>

\* impl = VerifierAlgorithm(alg)
Dispatch ==
  /\ pc = "VerifierAlgorithm"
  /\ impl' = VerifierAlgorithm(alg)
  /\ pc' = IF impl'.kind = "throw" THEN "failed" ELSE "dispatched"
  /\ UNCHANGED <<alg, data, signature, authenticators, ethPersonal, chainId,
                 recoverable, origin, tampered, result, sigObj>>

\* the call of the verifier that the dispatcher returned
Call(fn, d, sig, oracle) ==
  CASE fn = "verifyES256K" ->
         verifyES256K(d, sig, authenticators, ethPersonal, oracle)
    [] fn = "verifyRecoverableES256K" ->
         verifyRecoverableES256K(d, sig, authenticators, ethPersonal, chainId,
                                 oracle)
    [] fn = "verifyEd25519" ->
         verifyEd25519(d, sig, authenticators, oracle)

Verifiers == {"verifyES256K", "verifyRecoverableES256K", "verifyEd25519"}

Verify ==
  /\ pc = "dispatched"
  /\ impl.fn \in Verifiers
  /\ \E oracle \in BOOLEAN : result' = Call(impl.fn, data, signature, oracle)
  /\ pc' = "returned"
  /\ UNCHANGED <<alg, data, signature, authenticators, ethPersonal, chainId,
                 recoverable, origin, tampered, impl, sigObj>>

\* sigObj = toSignatureObject(signature, recoverable, chainId)
Decode ==
  /\ pc = "toSignatureObject"
  /\ sigObj' = toSignatureObject(signature, recoverable, chainId)
  /\ pc' = "decoded"
  /\ UNCHANGED <<alg, data, signature, authenticators, ethPersonal, chainId,
                 recoverable, origin, tampered, impl, result>>

Next == Tamper \/ Dispatch \/ Verify \/ Decode

Spec == Init /\ [][Next]_vars

---------------------------------------------------------------------------
(* Vocabulary of the properties *)

\* decoded length of the signature in hand
SigBytes == DecodedLength(signature.length)

Returned == pc = "returned"

\* the signature and the signing input are as the signer gave them
Genuine == Returned /\ tampered = "none"

\* the entry describes point p: as its uncompressed or compressed key, or as
\* its address
Describes(a, p) ==
  \/ a.publicKeyHex = <<"04", p>>
  \/ a.publicKeyHex = <<"02", p>>
  \/ a.ethereumAddress = <<"0x", p>>

Entries == 1..Len(authenticators)

\* the smallest member of a non-empty set of indices
Earliest(S) == CHOOSE i \in S : \A k \in S : i <= k

\* the signature came from the signer of the algorithm it is verified under
OwnScheme ==
  \/ alg = "ES256K" /\ SigBytes = 64
  \/ alg = "ES256K-R" /\ SigBytes = 65
  \/ alg \in {"Ed25519", "EdDSA"}

---------------------------------------------------------------------------
(* C1 *)

\* C1: ES256K and ES256K-R, either digest convention: a signature made by
\* key K, verified against a list that holds a descriptor of K (uncompressed
\* key, compressed key or address) among candidates that do not match,
\* returns an entry of the list itself, by reference, that describes K.
C1_SignThenVerifyReturnsEntry ==
  ( /\ Genuine
    /\ Secp
    /\ OwnScheme
    /\ \E i \in Entries : Describes(authenticators[i], "K")
    /\ \A i \in Entries : ~Describes(authenticators[i], "Q") )
  => /\ result.kind = "return"
     /\ result.ref \in Entries
     /\ authenticators[result.ref].ref = result.ref
     /\ Describes(authenticators[result.ref], "K")

\* ES256K, personal digest: the address of K, behind a candidate that does
\* not match, is returned through the recoverer
C1_Witness ==
  /\ Genuine
  /\ alg = "ES256K"
  /\ ethPersonal
  /\ Len(authenticators) = 2
  /\ ~Describes(authenticators[1], "K")
  /\ authenticators[2].ethereumAddress = <<"0x", "K">>
  /\ result.kind = "return"
  /\ result.ref = 2

---------------------------------------------------------------------------
(* C4 *)

\* C4: toSignatureObject throws 'wrong signature length' exactly when the
\* decoded signature is not 64 bytes (recoverable false) or 65 bytes
\* (recoverable true); verifyES256K throws it for every signature that is
\* not 64 bytes and verifyRecoverableES256K for every signature that is
\* neither 64 nor 65 bytes, before any candidate is examined.
C4_LengthError ==
  /\ pc = "decoded" =>
       ( (sigObj.kind = "throw" /\ sigObj.msg = LengthError)
         <=> SigBytes # (IF recoverable THEN 65 ELSE 64) )
  /\ ( /\ Returned
       /\ \/ impl.fn = "verifyES256K" /\ SigBytes # 64
          \/ impl.fn = "verifyRecoverableES256K" /\ SigBytes \notin {64, 65} )
     => /\ result.kind = "throw"
        /\ result.msg = LengthError
        /\ result.examined = << >>
        /\ result.tried = << >>

\* the test's case: two characters appended make 66 bytes
C4_Witness ==
  /\ Returned
  /\ impl.fn = "verifyES256K"
  /\ signature.length = 88
  /\ Len(authenticators) > 0
  /\ result.msg = LengthError

---------------------------------------------------------------------------
(* C5 *)

\* C5: VerifierAlgorithm gives verifyES256K for 'ES256K',
\* verifyRecoverableES256K for 'ES256K-R', verifyEd25519 for 'Ed25519' and
\* 'EdDSA', and for every other name gives no function and throws
\* 'Unsupported algorithm <name>' before any candidate is examined.
C5_Dispatch ==
  impl.kind # "none" =>
    CASE alg = "ES256K" -> impl.fn = "verifyES256K"
      [] alg = "ES256K-R" -> impl.fn = "verifyRecoverableES256K"
      [] alg \in {"Ed25519", "EdDSA"} -> impl.fn = "verifyEd25519"
      [] OTHER -> /\ impl.kind = "throw"
                  /\ impl.msg = UnsupportedAlgorithm(alg)
                  /\ impl.fn = "undefined"
                  /\ result = NoResult

---------------------------------------------------------------------------
(* C7 *)

\* the decoded recovery parameter of a direct toSignatureObject call
Decoded65 ==
  /\ pc = "decoded"
  /\ recoverable
  /\ SigBytes = 65
  /\ sigObj.kind = "return"

\* a chain-bound signature and the legacy signature by the same key and
\* nonce give the same outcome
SameAsLegacy ==
  ( /\ Genuine
    /\ impl.fn = "verifyRecoverableES256K"
    /\ SigBytes = 65
    /\ ethPersonal
    /\ chainId # Undefined )
  => \A oracle \in BOOLEAN :
       result = verifyRecoverableES256K(
                  data, Signed(65, 27 + origin.parity), authenticators,
                  ethPersonal, Undefined, oracle)

\* C7 as stated: for every chain id and parity p, the recovery byte
\* chainId*2+35+p decodes to recoveryParam p, as the byte 27+p does when no
\* chain id is given.
C7_EveryChainId ==
  \A p \in {0, 1} :
    /\ ( /\ Decoded65
         /\ chainId # Undefined
         /\ signature.v = chainId[1] * 2 + 35 + p )
       => sigObj.recoveryParam = <<p>>
    /\ (Decoded65 /\ chainId = Undefined /\ signature.v = 27 + p)
       => sigObj.recoveryParam = <<p>>

\* C7 amended: the same for every chain id other than 0 (whose bytes
\* chainId*2+35+p fit a byte); chain id 0 counts as none, under which the
\* legacy bytes 27+p decode to p.  A signature of ethPersonalSigner verified
\* with the signer's chain id gives what the legacy signature gives.
C7_NonZeroChainId ==
  /\ \A p \in {0, 1} :
       /\ ( /\ Decoded65
            /\ chainId # Undefined
            /\ chainId[1] # 0
            /\ signature.v = chainId[1] * 2 + 35 + p )
          => sigObj.recoveryParam = <<p>>
       /\ ( /\ Decoded65
            /\ chainId \in {Undefined, <<0>>}
            /\ signature.v = 27 + p )
          => sigObj.recoveryParam = <<p>>
  /\ SameAsLegacy

\* chain id 2: the byte 40 decodes to parity 1
C7_Witness ==
  /\ Decoded65
  /\ chainId = <<2>>
  /\ signature.v = 40
  /\ sigObj.recoveryParam = <<1>>

---------------------------------------------------------------------------
(* C8 *)

\* C8: a SignatureObject that toSignatureObject returns has r and s of 32
\* bytes each (64 hex digits), has a recoveryParam if and only if recoverable
\* is true, and that recoveryParam is 0 or 1 whatever the raw recovery byte
\* and the chain id.
C8_SignatureObjectShape ==
  (pc = "decoded" /\ sigObj.kind = "return") =>
    /\ sigObj.r.chars = 64
    /\ sigObj.s.chars = 64
    /\ (sigObj.recoveryParam # Undefined) <=> recoverable
    /\ recoverable => sigObj.recoveryParam[1] \in {0, 1}

---------------------------------------------------------------------------
(* C2 *)

\* what the verifier gave, or would have given, for the inputs as signed
Original(oracle) == Call(impl.fn, "d1", origin.sig, oracle)

\* the caller changed bytes of the signing input or of the decoded signature
\* and the verification of the inputs as signed succeeds
Altered(kinds) ==
  /\ Returned
  /\ tampered \in kinds
  /\ \E oracle \in BOOLEAN : Original(oracle).kind = "return"

\* the altered recovery byte decodes to the recovery parameter of the
\* original byte
SameRecoveryParam ==
  calculateSigRecovery(signature.v, chainId)
    = calculateSigRecovery(origin.sig.v, chainId)

Failed(msgs) == result.kind = "throw" /\ result.msg \in msgs

\* C2 as stated, in what it says of acceptance: after a change of any byte
\* of the signature (r, s, the recovery byte) or of the signing input,
\* verification against the same list fails; no altered signature is still
\* accepted.
C2_NoAlteredSignatureAccepted ==
  Altered({"data", "r", "s", "v"}) => result.kind = "throw"

\* C2 amended: after a change of the signing input, of r, or of s to a value
\* other than n - s, verification never returns a descriptor: it fails with
\* 'Signature invalid for JWT', or with the error of a primitive that raises
\* uncaught (key recovery from the altered r, Ed25519 key decoding of a
\* malformed candidate).  A changed recovery byte that decodes to the same
\* recovery parameter (27 for 0, 28 for 1, ...) leaves the result as it was;
\* any other recovery byte fails in the same two ways, or returns a
\* candidate that describes the key recovered under the opposite parity.
C2_AlterationOutcome ==
  /\ Altered({"data", "s"}) =>
       /\ Failed({SignatureInvalid, PrimitiveError})
       /\ result.msg = PrimitiveError => impl.fn = "verifyEd25519"
  /\ Altered({"r"}) =>
       /\ Failed({SignatureInvalid, PrimitiveError})
       /\ result.msg = PrimitiveError =>
            impl.fn = "verifyEd25519" \/ result.tried # << >>
  /\ (Altered({"v"}) /\ SameRecoveryParam) =>
       \A oracle \in BOOLEAN : result = Original(oracle)
  /\ (Altered({"v"}) /\ ~SameRecoveryParam) =>
       \/ /\ Failed({SignatureInvalid, PrimitiveError})
          /\ result.msg = PrimitiveError => result.tried # << >>
       \/ /\ result.kind = "return"
          /\ Describes(authenticators[result.ref], "Q")
          /\ result.tried = <<1 - calculateSigRecovery(origin.sig.v, chainId)>>

\* the legacy byte 27 replaced by 0 is accepted as before
C2_Witness ==
  /\ Altered({"v"})
  /\ origin.sig.v = 27
  /\ signature.v = 0
  /\ result.kind = "return"
  /\ Describes(authenticators[result.ref], "K")

---------------------------------------------------------------------------
(* C3 *)

\* a candidate the verifier cannot use: key material that does not decode,
\* or none of the kind the verifier reads
MalformedOrUnused(a) ==
  IF impl.fn = "verifyEd25519"
  THEN ~DecodesBase64(a.publicKeyBase64)
  ELSE \/ a.publicKeyHex # Undefined /\ ~Decodes(a.publicKeyHex)
       \/ a.publicKeyHex = Undefined /\ a.ethereumAddress = Undefined

\* a candidate that describes the signing key
Valid(a) ==
  IF impl.fn = "verifyEd25519"
  THEN a.publicKeyBase64 = <<"base64", "E">>
  ELSE Describes(a, "K")

\* C3: in every verifier, candidates that are malformed or of a kind the
\* verifier does not use, ahead of a valid candidate, never abort the scan:
\* the verification of a genuine signature still returns the descriptor of
\* the signing key.
C3_MalformedNeverBlocks ==
  \A i \in Entries :
    ( /\ Genuine
      /\ OwnScheme
      /\ \A k \in Entries : ~Describes(authenticators[k], "Q")
      /\ Valid(authenticators[i])
      /\ \A k \in 1..(i - 1) : MalformedOrUnused(authenticators[k]) )
    => /\ result.kind = "return"
       /\ result.ref \in Entries
       /\ Valid(authenticators[result.ref])

---------------------------------------------------------------------------
(* C6 *)

KeyBearing == {i \in Entries : authenticators[i].publicKeyHex # Undefined}
AddressBearing == {i \in Entries : authenticators[i].ethereumAddress # Undefined}

\* the key-bearing candidates that verify a genuine signature
Verifying ==
  {i \in KeyBearing : authenticators[i].publicKeyHex \in {<<"04", "K">>, <<"02", "K">>}}

\* a genuine 64-byte signature reaches the recoverer: directly, or from
\* verifyES256K when no key-bearing candidate verifies and an address exists
Recoverer64 ==
  /\ Genuine
  /\ Secp
  /\ SigBytes = 64
  /\ \/ impl.fn = "verifyRecoverableES256K"
     \/ impl.fn = "verifyES256K" /\ Verifying = {} /\ AddressBearing # {}

\* the candidates the recoverer is given
Passed == IF impl.fn = "verifyES256K" THEN AddressBearing ELSE Entries

\* C6: a 64-byte signature in the recoverer, directly or through the address
\* fallback of verifyES256K, is tried as two signature objects, recoveryParam
\* 0 then 1, and a candidate describing the signing key is matched whichever
\* parity made the signature; it is the result unless the other attempt
\* matched a candidate as well.
C6_BothParitiesTried ==
  /\ Recoverer64 => result.tried = <<0, 1>>
  /\ ( /\ Recoverer64
       /\ \E i \in Passed : Describes(authenticators[i], "K") )
     => /\ result.kind = "return"
        /\ \E k \in 1..Len(result.signers) :
             Describes(authenticators[result.signers[k]], "K")
        /\ (\A i \in Passed : ~Describes(authenticators[i], "Q"))
             => Describes(authenticators[result.ref], "K")

\* a signature of parity 1 matched by the second attempt of the fallback
C6_Witness ==
  /\ Recoverer64
  /\ impl.fn = "verifyES256K"
  /\ origin.parity = 1
  /\ result.tried = <<0, 1>>
  /\ result.kind = "return"
  /\ Len(result.signers) = 1
  /\ Describes(authenticators[result.ref], "K")

---------------------------------------------------------------------------
(* C9 *)

\* the candidates that match a genuine signature
Matching ==
  IF impl.fn = "verifyEd25519"
  THEN {i \in Entries : authenticators[i].publicKeyBase64 = <<"base64", "E">>}
  ELSE {i \in Entries : Describes(authenticators[i], "K")}

\* C9 as stated: every verifier returns the matching entry that is earliest
\* in the candidate list.
C9_EarliestInList ==
  ( /\ Genuine
    /\ OwnScheme
    /\ \A i \in Entries : ~Describes(authenticators[i], "Q")
    /\ result.kind = "return" )
  => result.ref = Earliest(Matching)

\* the point that recovery with parameter j yields from a genuine signature
KeyOfParity(j) == IF origin.parity = j THEN "K" ELSE "Q"

\* the earliest of the candidates S that describes point p, 0 when none does
FirstDescribing(S, p) ==
  LET hits == {i \in S : Describes(authenticators[i], p)} IN
  IF hits = {} THEN 0 ELSE Earliest(hits)

\* the recoverer's choice among the candidates S for a 64-byte signature
ByParity(S) ==
  IF FirstDescribing(S, KeyOfParity(0)) # 0
  THEN FirstDescribing(S, KeyOfParity(0))
  ELSE FirstDescribing(S, KeyOfParity(1))

Expected ==
  CASE impl.fn = "verifyEd25519" ->
         IF Matching = {} THEN 0 ELSE Earliest(Matching)
    [] impl.fn = "verifyRecoverableES256K" /\ SigBytes = 65 ->
         FirstDescribing(Entries, "K")
    [] impl.fn = "verifyRecoverableES256K" /\ SigBytes # 65 ->
         ByParity(Entries)
    [] impl.fn = "verifyES256K" ->
         IF Verifying # {} THEN Earliest(Verifying) ELSE ByParity(AddressBearing)

\* C9 amended: verifyEd25519, and verifyRecoverableES256K for a 65-byte
\* signature, return the earliest matching entry of the list.  verifyES256K
\* returns the earliest key-bearing entry that verifies the signature, even
\* behind a matching address entry, and only when there is none what the
\* recoverer returns for the address entries.  For a 64-byte signature the
\* recoverer returns the earliest entry that matches the key recovered with
\* parity 0, and only when there is none the earliest that matches the key
\* recovered with parity 1.
C9_PrecedenceByPhase ==
  ( /\ Genuine
    /\ Secp => SigBytes \in {64, 65}
    /\ impl.fn = "verifyES256K" => SigBytes = 64 )
  => /\ result.kind = "return" => result.ref = Expected
     /\ (Secp /\ Expected # 0) => result.kind = "return"

\* verifyES256K passes over the address of K for the key of K behind it
C9_Witness ==
  /\ Genuine
  /\ impl.fn = "verifyES256K"
  /\ Len(authenticators) = 2
  /\ authenticators[1].ethereumAddress = <<"0x", "K">>
  /\ authenticators[2].publicKeyHex = <<"04", "K">>
  /\ result.kind = "return"
  /\ result.ref = 2

---------------------------------------------------------------------------
(* C10 *)

\* C10: in verifyRecoverableES256K a key recovery that raises on one attempt
\* yields no match for that attempt only: the other attempt is still made
\* and the call returns a candidate or fails with 'Signature invalid for
\* JWT', never with the error of the recovery primitive.
C10_RecoveryFailureIsNoMatch ==
  ( /\ Returned
    /\ impl.fn = "verifyRecoverableES256K"
    /\ SigBytes \in {64, 65} )
  => /\ result.kind = "return" \/ Failed({SignatureInvalid})
     /\ SigBytes = 64 => result.tried = <<0, 1>>

====
